---- MODULE Spec2Model ----
(***************************************************************************)
(* Scenario simulation engine of the token-launchpad comparison dashboard. *)
(*                                                                         *)
(* Two chart components exist in the repository:                           *)
(*   - the integer-step component (src/src/components/ProtocolChart.tsx),  *)
(*     whose series is held in React state and regenerated by an effect;   *)
(*   - the half-step component (src/unnamed/part_000), whose series is a   *)
(*     useMemo value recomputed during render.                             *)
(*                                                                         *)
(* JavaScript numbers are modelled as decimal fixed-point values with      *)
(* Scale units per 1.0, plus the non-finite values NaN, +Infinity and      *)
(* -Infinity.  Every decimal literal of the source (0.015, 0.3, 1.15 ...)  *)
(* is exact at this scale; products and quotients round down to the next   *)
(* unit, which plays the part of the floating-point rounding error.        *)
(***************************************************************************)
EXTENDS Integers, Sequences, FiniteSets, TLC

\* Units per 1.0 of the fixed-point representation (a multiple of 4, so that
\* quarter exponents are exact).
Scale == 100 * 100

----------------------------------------------------------------------------
(* JavaScript number arithmetic                                            *)
(*                                                                         *)
(* The arithmetic is written as functions: a function application          *)
(* evaluates its arguments once, whatever the size of the expressions      *)
(* they come from.                                                         *)

JSNumber == [k : {"fin", "nan", "inf"}, v : Int]

Fin(n) == [k |-> "fin", v |-> n]
NaN == [k |-> "nan", v |-> 0]
PosInf == [k |-> "inf", v |-> 1]
NegInf == [k |-> "inf", v |-> -1]

\* The literal n/d of the source, e.g. Dec(15, 1000) for 0.015.
Dec(n, d) == Fin((n * Scale) \div d)
\* The integer n as a number.
Num(n) == Fin(n * Scale)

isFinite(a) == a.k = "fin"

signOf[a \in JSNumber] ==
    IF a.k = "inf" THEN a.v ELSE IF a.v > 0 THEN 1 ELSE IF a.v < 0 THEN -1 ELSE 0

absInt[n \in Int] == IF n < 0 THEN -n ELSE n

\* floor(x*y/Scale) without an intermediate product beyond the result's size.
mulFix[x \in Int, y \in Int] ==
    LET xh == x \div Scale
        xl == x % Scale
        yh == y \div Scale
        yl == y % Scale
    IN  xh * yh * Scale + xh * yl + xl * yh + ((xl * yl) \div Scale)

jsNeg[a \in JSNumber] == IF a.k = "nan" THEN NaN ELSE [k |-> a.k, v |-> -a.v]

jsAdd[a \in JSNumber, b \in JSNumber] ==
    IF a.k = "fin" /\ b.k = "fin" THEN Fin(a.v + b.v)
    ELSE IF a.k = "nan" \/ b.k = "nan" THEN NaN
    ELSE IF a.k = "inf" /\ b.k = "inf" THEN (IF a.v = b.v THEN a ELSE NaN)
    ELSE IF a.k = "inf" THEN a ELSE b

jsSub[a \in JSNumber, b \in JSNumber] == jsAdd[a, jsNeg[b]]

jsMul[a \in JSNumber, b \in JSNumber] ==
    IF a.k = "fin" /\ b.k = "fin" THEN Fin(mulFix[a.v, b.v])
    ELSE IF a.k = "nan" \/ b.k = "nan" THEN NaN
    ELSE IF signOf[a] = 0 \/ signOf[b] = 0 THEN NaN
    ELSE IF signOf[a] = signOf[b] THEN PosInf ELSE NegInf

\* a / b; the finite quotient needs |a| * Scale to fit, which holds for the
\* one variable quotient of the source (apy / periods).
jsDiv[a \in JSNumber, b \in JSNumber] ==
    IF a.k = "nan" \/ b.k = "nan" THEN NaN
    ELSE IF a.k = "fin" /\ b.k = "fin" THEN
        IF b.v # 0 THEN Fin((a.v * Scale) \div b.v)
        ELSE IF a.v = 0 THEN NaN
        ELSE IF a.v > 0 THEN PosInf ELSE NegInf
    ELSE IF a.k = "inf" /\ b.k = "inf" THEN NaN
    ELSE IF a.k = "inf" THEN (IF signOf[a] * signOf[b] < 0 THEN NegInf ELSE PosInf)
    ELSE Fin(0)

\* a / n for a positive integer literal n of the source (entryTime / 5,
\* timeHeld / 20, value / 100).
jsDivInt[a \in JSNumber, n \in Int] == IF a.k = "fin" THEN Fin(a.v \div n) ELSE a

jsLess[a \in JSNumber, b \in JSNumber] ==
    IF a.k = "nan" \/ b.k = "nan" THEN FALSE
    ELSE IF a.k = "fin" /\ b.k = "fin" THEN a.v < b.v
    ELSE IF a.k = "inf" /\ b.k = "inf" THEN a.v < b.v
    ELSE IF a.k = "inf" THEN a.v < 0 ELSE b.v > 0

jsLeq[a \in JSNumber, b \in JSNumber] == jsLess[a, b] \/ (a.k # "nan" /\ a = b)

\* Math.max and Math.min return NaN when an argument is NaN.
mathMax[a \in JSNumber, b \in JSNumber] ==
    IF a.k = "nan" \/ b.k = "nan" THEN NaN ELSE IF jsLess[a, b] THEN b ELSE a

mathMin[a \in JSNumber, b \in JSNumber] ==
    IF a.k = "nan" \/ b.k = "nan" THEN NaN ELSE IF jsLess[b, a] THEN b ELSE a

\* Largest r in lo..hi with r*r <= n.
isqrtSearch[n \in Int, lo \in Int, hi \in Int] ==
    IF lo >= hi THEN lo
    ELSE LET mid == (lo + hi + 1) \div 2
         IN  IF mid * mid <= n THEN isqrtSearch[n, mid, hi] ELSE isqrtSearch[n, lo, mid - 1]

\* Largest r with r*r <= n, for 0 <= n < 2^31.
isqrt[n \in Int] == isqrtSearch[n, 0, IF n < 46340 THEN n ELSE 46340]

\* Square root of a non-negative fixed-point value (below 2^31 / Scale units).
sqrtFix[x \in Int] == isqrt[x * Scale]

mathSqrt[a \in JSNumber] ==
    IF a.k = "nan" THEN NaN
    ELSE IF a.k = "inf" THEN (IF a.v > 0 THEN PosInf ELSE NaN)
    ELSE IF a.v < 0 THEN NaN ELSE Fin(sqrtFix[a.v])

squareFix[x \in Int] == mulFix[x, x]

\* x^n for a natural n, by squaring.
ipow[x \in Int, n \in Int] ==
    IF n = 0 THEN Scale
    ELSE IF n % 2 = 1 THEN mulFix[x, ipow[x, n - 1]]
    ELSE squareFix[ipow[x, n \div 2]]

\* x^(f/4) for x > 0 and f in 0..3.
quarterPow[r2 \in Int, f \in Int] ==
    CASE f = 0 -> Scale
      [] f = 1 -> sqrtFix[r2]
      [] f = 2 -> r2
      [] f = 3 -> mulFix[r2, sqrtFix[r2]]

\* x^(q/Scale) for x > 0 and q >= 0; the fractional part of the exponent is
\* taken in quarters (every exponent the series produces is a multiple of 1/4).
powPos[x \in Int, q \in Int] ==
    LET f == (q % Scale) \div (Scale \div 4)
    IN  mulFix[ipow[x, q \div Scale], IF f = 0 THEN Scale ELSE quarterPow[sqrtFix[x], f]]

isWhole[e \in Int] == e % Scale = 0
isOddWhole[e \in Int] == e % Scale = 0 /\ (e \div Scale) % 2 # 0

\* s / m for a magnitude m >= 0 and a sign s, Infinity for m = 0.
recipFix[m \in Int, s \in Int] ==
    IF m = 0 THEN (IF s > 0 THEN PosInf ELSE NegInf) ELSE Fin(s * ((Scale * Scale) \div m))

\* Math.pow(a, e): 1 for a zero exponent whatever the base, NaN for a negative
\* base with a fractional exponent, Infinity for 0 to a negative power.
mathPow[a \in JSNumber, e \in JSNumber] ==
    IF e.k = "fin" /\ e.v = 0 THEN Fin(Scale)
    ELSE IF a.k = "nan" \/ e.k = "nan" THEN NaN
    ELSE IF e.k = "inf" THEN
        (IF a.k = "fin" /\ absInt[a.v] = Scale THEN NaN
         ELSE IF (a.k = "inf" \/ absInt[a.v] > Scale) = (e.v > 0) THEN PosInf ELSE Fin(0))
    ELSE IF a.k = "inf" THEN
        (IF e.v < 0 THEN Fin(0)
         ELSE IF a.v < 0 /\ isOddWhole[e.v] THEN NegInf ELSE PosInf)
    ELSE IF a.v = 0 THEN (IF e.v > 0 THEN Fin(0) ELSE PosInf)
    ELSE IF a.v < 0 /\ ~isWhole[e.v] THEN NaN
    ELSE LET s == IF a.v < 0 /\ isOddWhole[e.v] THEN -1 ELSE 1
         IN  IF e.v > 0 THEN Fin(s * powPos[absInt[a.v], e.v])
             ELSE recipFix[powPos[absInt[a.v], -e.v], s]

----------------------------------------------------------------------------
(* Integer-step component: the per-model functions                         *)

\* Variant: the elapsed time without the clamp at 0.
TimeHeldUnclamped(entryTime, currentTime) == jsSub[currentTime, entryTime]

\* timeHeld = Math.max(0, currentTime - entryTime)
TimeHeld(entryTime, currentTime) == mathMax[Num(0), jsSub[currentTime, entryTime]]

\* The ProtocolData record with every model field 0.
ZeroData(currentTime) ==
    [time |-> currentTime, gobblerTotal |-> Num(0), snapperTotal |-> Num(0),
     ripperTotal |-> Num(0), ripperAMM |-> Num(0), ripperStaking |-> Num(0),
     m3m3Total |-> Num(0), m3m3Sol |-> Num(0), m3m3Token |-> Num(0),
     pumpFunTotal |-> Num(0)]

\* Variant: the early multiplier without its lower bound of 1.
gobblerLpTokensUnbounded(initialDeposit, entryTime) ==
    jsMul[initialDeposit, jsSub[Num(2), jsDivInt[entryTime, 5]]]

gobblerLpTokens(initialDeposit, entryTime) ==
    jsMul[initialDeposit, mathMax[jsSub[Num(2), jsDivInt[entryTime, 5]], Num(1)]]

\* Variant: the fees charged to the position instead of accruing to it.
gobblerAccumulatedFeesCharged(initialDeposit, entryTime, currentTime) ==
    jsMul[jsMul[gobblerLpTokens(initialDeposit, entryTime), TimeHeld(entryTime, currentTime)],
         Dec(-15, 1000)]

gobblerAccumulatedFees(initialDeposit, entryTime, currentTime) ==
    jsMul[jsMul[gobblerLpTokens(initialDeposit, entryTime), TimeHeld(entryTime, currentTime)],
         Dec(15, 1000)]

calculateGobblerReturns(initialDeposit, entryTime, currentTime) ==
    [ZeroData(currentTime) EXCEPT
        !.gobblerTotal = jsAdd[gobblerLpTokens(initialDeposit, entryTime),
                              gobblerAccumulatedFees(initialDeposit, entryTime, currentTime)]]

snapperAccumulatedFees(initialDeposit, entryTime, currentTime) ==
    LET timeHeld == TimeHeld(entryTime, currentTime)
        feeMultiplier == mathSqrt[jsAdd[Num(1), jsMul[timeHeld, Dec(3, 10)]]]
    IN  jsMul[jsMul[jsMul[initialDeposit, timeHeld], Dec(1, 100)], feeMultiplier]

\* Variant: Snapper with the Gobbler's early-entry multiplier on the principal.
calculateSnapperReturnsEarly(initialDeposit, entryTime, currentTime) ==
    [ZeroData(currentTime) EXCEPT
        !.snapperTotal = jsAdd[gobblerLpTokens(initialDeposit, entryTime),
                              snapperAccumulatedFees(initialDeposit, entryTime, currentTime)]]

calculateSnapperReturns(initialDeposit, entryTime, currentTime) ==
    [ZeroData(currentTime) EXCEPT
        !.snapperTotal = jsAdd[initialDeposit,
                              snapperAccumulatedFees(initialDeposit, entryTime, currentTime)]]

\* Variant: the second regime starting over from 1 instead of from 1.3^5.
calculateMCMultiplierRestart(time) ==
    IF jsLess[time, Num(5)] THEN mathPow[Dec(13, 10), time]
    ELSE IF jsLess[time, Num(10)] THEN mathPow[Dec(115, 100), jsSub[time, Num(5)]]
    ELSE jsMul[jsMul[mathPow[Dec(13, 10), Num(5)], mathPow[Dec(115, 100), Num(5)]],
              mathPow[Dec(105, 100), jsSub[time, Num(10)]]]

\* Market-cap growth of the non-LP part, piecewise in time.
calculateMCMultiplier(time) ==
    IF jsLess[time, Num(5)] THEN mathPow[Dec(13, 10), time]
    ELSE IF jsLess[time, Num(10)] THEN
        jsMul[mathPow[Dec(13, 10), Num(5)], mathPow[Dec(115, 100), jsSub[time, Num(5)]]]
    ELSE jsMul[jsMul[mathPow[Dec(13, 10), Num(5)], mathPow[Dec(115, 100), Num(5)]],
              mathPow[Dec(105, 100), jsSub[time, Num(10)]]]

\* Variant: the early bonus applied whatever the entry time.
ripperLpTokensAlways(initialDeposit, entryTime) ==
    LET initialLPAmount == jsMul[initialDeposit, Dec(6, 10)]
    IN  jsAdd[initialLPAmount,
              jsMul[initialLPAmount, jsDivInt[jsMul[Dec(5, 10), jsSub[Num(4), entryTime]], 4]]]

ripperLpTokens(initialDeposit, entryTime) ==
    LET initialLPAmount == jsMul[initialDeposit, Dec(6, 10)]
    IN  IF jsLeq[entryTime, Num(4)]
        THEN jsAdd[initialLPAmount,
                  jsMul[initialLPAmount,
                       jsDivInt[jsMul[Dec(5, 10), jsSub[Num(4), entryTime]], 4]]]
        ELSE initialLPAmount

ripperAmmFees(initialDeposit, entryTime, currentTime) ==
    LET baseRate == jsMul[Dec(1, 100), jsAdd[Num(1), jsMul[currentTime, Dec(5, 100)]]]
    IN  jsMul[jsMul[ripperLpTokens(initialDeposit, entryTime), TimeHeld(entryTime, currentTime)],
             baseRate]

ripperStakingRewards(initialDeposit, entryTime, currentTime, topStaker) ==
    LET timeHeld == TimeHeld(entryTime, currentTime)
        stakingMultiplier == mathMin[jsAdd[Num(1), jsMul[timeHeld, Dec(15, 100)]], Dec(25, 10)]
    IN  IF topStaker
        THEN jsMul[jsMul[jsMul[ripperLpTokens(initialDeposit, entryTime), Dec(30, 100)],
                       stakingMultiplier],
                  jsDivInt[timeHeld, 20]]
        ELSE Num(0)

ripperNonLPValue(initialDeposit, currentTime) ==
    jsMul[jsMul[initialDeposit, jsSub[Num(1), Dec(6, 10)]], calculateMCMultiplier(currentTime)]

\* Variant: the staking rewards counted into ripperAMM as well.
calculateRipperReturnsMixed(initialDeposit, entryTime, currentTime, topStaker) ==
    LET ammFees == ripperAmmFees(initialDeposit, entryTime, currentTime)
        stakingRewards == ripperStakingRewards(initialDeposit, entryTime, currentTime, topStaker)
    IN  [ZeroData(currentTime) EXCEPT
            !.ripperTotal = jsAdd[jsAdd[jsAdd[ripperLpTokens(initialDeposit, entryTime), ammFees],
                                      stakingRewards],
                                 ripperNonLPValue(initialDeposit, currentTime)],
            !.ripperAMM = jsAdd[ammFees, stakingRewards],
            !.ripperStaking = stakingRewards]

calculateRipperReturns(initialDeposit, entryTime, currentTime, topStaker) ==
    LET ammFees == ripperAmmFees(initialDeposit, entryTime, currentTime)
        stakingRewards == ripperStakingRewards(initialDeposit, entryTime, currentTime, topStaker)
    IN  [ZeroData(currentTime) EXCEPT
            !.ripperTotal = jsAdd[jsAdd[jsAdd[ripperLpTokens(initialDeposit, entryTime), ammFees],
                                      stakingRewards],
                                 ripperNonLPValue(initialDeposit, currentTime)],
            !.ripperAMM = ammFees,
            !.ripperStaking = stakingRewards]

\* Variant: linear-accrual M3M3 with the SOL and token shares swapped.
calculateM3M3ReturnsSwapped(initialDeposit, entryTime, currentTime, topStaker) ==
    LET timeHeld == mathMax[Num(0), jsSub[currentTime, entryTime]]
        stakingMultiplier == mathMin[jsAdd[Num(1), jsMul[timeHeld, Dec(15, 100)]], Num(3)]
        totalRewards == jsMul[jsMul[initialDeposit, jsMul[Dec(35, 100), stakingMultiplier]],
                              jsDivInt[timeHeld, 20]]
        solRewards == jsMul[totalRewards, Dec(7, 10)]
        tokenRewards == jsMul[totalRewards, Dec(3, 10)]
    IN  IF ~topStaker
        THEN [ZeroData(currentTime) EXCEPT !.m3m3Total = initialDeposit]
        ELSE [ZeroData(currentTime) EXCEPT
                !.m3m3Total = jsAdd[jsAdd[initialDeposit, solRewards], tokenRewards],
                !.m3m3Sol = solRewards,
                !.m3m3Token = tokenRewards]

\* Variant: linear-accrual M3M3 that pays rewards whatever the staker flag.
calculateM3M3ReturnsUngated(initialDeposit, entryTime, currentTime, topStaker) ==
    LET timeHeld == mathMax[Num(0), jsSub[currentTime, entryTime]]
        stakingMultiplier == mathMin[jsAdd[Num(1), jsMul[timeHeld, Dec(15, 100)]], Num(3)]
        totalRewards == jsMul[jsMul[initialDeposit, jsMul[Dec(35, 100), stakingMultiplier]],
                              jsDivInt[timeHeld, 20]]
        solRewards == jsMul[totalRewards, Dec(3, 10)]
        tokenRewards == jsMul[totalRewards, Dec(7, 10)]
    IN  [ZeroData(currentTime) EXCEPT
            !.m3m3Total = jsAdd[jsAdd[initialDeposit, solRewards], tokenRewards],
            !.m3m3Sol = solRewards,
            !.m3m3Token = tokenRewards]

\* The Ripper model the analysis section displays (App.tsx): LP tokens on
\* the whole deposit, AMM fees growing with sqrt(time_held + k_factor), a
\* base staking APY of 0.25 and no non-LP part.  The early bonus ("only for
\* first 48 hours") and the early k_factor are taken for entry_time <= 4,
\* staking rewards for a top staker.
ripperDisplayedModel(initialDeposit, entryTime, currentTime, topStaker) ==
    LET timeHeld == TimeHeld(entryTime, currentTime)
        early == jsLeq[entryTime, Num(4)]
        lpTokens ==
            IF early
            THEN jsAdd[initialDeposit,
                       jsDivInt[jsMul[jsMul[initialDeposit, Dec(5, 10)],
                                      jsSub[Num(4), entryTime]], 4]]
            ELSE initialDeposit
        baseRate == jsMul[Dec(1, 100), jsAdd[Num(1), jsMul[currentTime, Dec(5, 100)]]]
        kFactor == IF early THEN Num(2) ELSE Num(1)
        ammFees == jsMul[jsMul[jsMul[lpTokens, timeHeld], baseRate],
                         mathSqrt[jsAdd[timeHeld, kFactor]]]
        stakingMultiplier == mathMin[jsAdd[Num(1), jsMul[timeHeld, Dec(15, 100)]], Dec(25, 10)]
        stakingRewards ==
            IF topStaker
            THEN jsMul[jsMul[jsMul[lpTokens, Dec(25, 100)], stakingMultiplier],
                       jsDivInt[timeHeld, 20]]
            ELSE Num(0)
    IN  [ripperTotal |-> jsAdd[jsAdd[lpTokens, ammFees], stakingRewards],
         ripperAMM |-> ammFees, ripperStaking |-> stakingRewards]

\* Linear-accrual M3M3.
calculateM3M3Returns(initialDeposit, entryTime, currentTime, topStaker) ==
    LET timeHeld == TimeHeld(entryTime, currentTime)
        stakingMultiplier == mathMin[jsAdd[Num(1), jsMul[timeHeld, Dec(15, 100)]], Num(3)]
        totalRewards == jsMul[jsMul[initialDeposit, jsMul[Dec(35, 100), stakingMultiplier]],
                             jsDivInt[timeHeld, 20]]
        solRewards == jsMul[totalRewards, Dec(3, 10)]
        tokenRewards == jsMul[totalRewards, Dec(7, 10)]
    IN  IF ~topStaker
        THEN [ZeroData(currentTime) EXCEPT !.m3m3Total = initialDeposit]
        ELSE [ZeroData(currentTime) EXCEPT
                !.m3m3Total = jsAdd[jsAdd[initialDeposit, solRewards], tokenRewards],
                !.m3m3Sol = solRewards,
                !.m3m3Token = tokenRewards]

\* Variant: the exponential-surge curve keeping the factor 1.5 in the
\* second phase.
pumpFunValueOneFactor(dep, t) ==
    IF t = 0 THEN dep
    ELSE IF t < 10 THEN jsMul[dep, mathPow[Dec(15, 10), Num(t)]]
    ELSE mathMax[jsMul[dep, mathPow[Dec(9, 10), Num(t - 10)]], jsMul[dep, Dec(1, 10)]]

\* The exponential-surge bonding curve written inline in the generator, for
\* the integer loop index t.
pumpFunValue(dep, t) ==
    IF t = 0 THEN dep
    ELSE IF t < 5 THEN jsMul[dep, mathPow[Dec(15, 10), Num(t)]]
    ELSE IF t < 10 THEN jsMul[dep, mathPow[Dec(12, 10), Num(t)]]
    ELSE mathMax[jsMul[dep, mathPow[Dec(9, 10), Num(t - 10)]], jsMul[dep, Dec(1, 10)]]

\* Last loop index of the integer-step generator (for t = 0; t <= 20; t++).
TimeHorizon == 20

\* Variant: the bonding-curve value taken at the time held since entry.
combinedRecordSinceEntry(dep, entry, topStaker, t) ==
    LET gobbler == calculateGobblerReturns(dep, entry, Num(t))
        snapper == calculateSnapperReturns(dep, entry, Num(t))
        ripper == calculateRipperReturns(dep, entry, Num(t), topStaker)
        m3m3 == calculateM3M3Returns(dep, entry, Num(t), topStaker)
        held == IF t * Scale > entry.v THEN t - (entry.v \div Scale) ELSE 0
    IN  [gobbler EXCEPT
            !.snapperTotal = snapper.snapperTotal,
            !.ripperTotal = ripper.ripperTotal,
            !.ripperAMM = ripper.ripperAMM,
            !.ripperStaking = ripper.ripperStaking,
            !.m3m3Total = m3m3.m3m3Total,
            !.m3m3Sol = m3m3.m3m3Sol,
            !.m3m3Token = m3m3.m3m3Token,
            !.pumpFunTotal = pumpFunValue(dep, held)]

\* Variant: {snapperTotal: ..., ..., ...gobbler}, the Gobbler record spread
\* last, so that its zero placeholders overwrite the other models' fields.
combinedRecordSpreadLast(dep, entry, topStaker, t) ==
    calculateGobblerReturns(dep, entry, Num(t))

\* The record pushed for loop index t: the Gobbler record with the other
\* models' fields overwritten from their own functions.
combinedRecord(dep, entry, topStaker, t) ==
    LET gobbler == calculateGobblerReturns(dep, entry, Num(t))
        snapper == calculateSnapperReturns(dep, entry, Num(t))
        ripper == calculateRipperReturns(dep, entry, Num(t), topStaker)
        m3m3 == calculateM3M3Returns(dep, entry, Num(t), topStaker)
    IN  [gobbler EXCEPT
            !.snapperTotal = snapper.snapperTotal,
            !.ripperTotal = ripper.ripperTotal,
            !.ripperAMM = ripper.ripperAMM,
            !.ripperStaking = ripper.ripperStaking,
            !.m3m3Total = m3m3.m3m3Total,
            !.m3m3Sol = m3m3.m3m3Sol,
            !.m3m3Token = m3m3.m3m3Token,
            !.pumpFunTotal = pumpFunValue(dep, t)]

\* Variant: the loop stopping one step early (t < 20).
RECURSIVE seriesLoopExclusive(_, _, _, _, _)
seriesLoopExclusive(newData, t, dep, entry, topStaker) ==
    IF t < TimeHorizon
    THEN seriesLoopExclusive(Append(newData, combinedRecord(dep, entry, topStaker, t)),
                             t + 1, dep, entry, topStaker)
    ELSE newData

\* The generator's loop: newData starts empty and gets one record per t.
RECURSIVE seriesLoop(_, _, _, _, _)
seriesLoop(newData, t, dep, entry, topStaker) ==
    IF t <= TimeHorizon
    THEN seriesLoop(Append(newData, combinedRecord(dep, entry, topStaker, t)),
                    t + 1, dep, entry, topStaker)
    ELSE newData

seriesEffect(dep, entry, topStaker) == seriesLoop(<<>>, 0, dep, entry, topStaker)

----------------------------------------------------------------------------
(* Half-step component: the per-model functions                            *)

calculateCompoundedReturns(principal, apy, periods) ==
    jsMul[principal, mathPow[jsAdd[Num(1), jsDiv[apy, periods]], periods]]

\* Variant: compounding M3M3 whose staking multiplier has no cap.
calculateM3M3ReturnsCompoundUncapped(initialDeposit, entryTime, currentTime, topStaker, rewardParams) ==
    LET timeHeld == mathMax[Num(0), jsSub[currentTime, entryTime]]
        effectiveAPY == jsMul[Dec(35, 100), jsAdd[Num(1), jsMul[timeHeld, Dec(15, 100)]]]
        totalRewards == jsSub[calculateCompoundedReturns(initialDeposit, effectiveAPY,
                                  jsMul[rewardParams.compoundPeriod, timeHeld]),
                              initialDeposit]
    IN  IF ~topStaker
        THEN [total |-> initialDeposit, sol |-> Num(0), token |-> Num(0), apy |-> Num(0)]
        ELSE [total |-> jsAdd[initialDeposit, totalRewards],
              sol |-> jsMul[totalRewards, rewardParams.solTokenRatio],
              token |-> jsMul[totalRewards, jsSub[Num(1), rewardParams.solTokenRatio]],
              apy |-> jsMul[effectiveAPY, Num(100)]]

\* Variant: compounding M3M3 with the token share's sign slipped
\* (solTokenRatio - 1 for 1 - solTokenRatio).
calculateM3M3ReturnsCompoundSignSlip(initialDeposit, entryTime, currentTime, topStaker, rewardParams) ==
    LET timeHeld == mathMax[Num(0), jsSub[currentTime, entryTime]]
        stakingMultiplier == mathMin[jsAdd[Num(1), jsMul[timeHeld, Dec(15, 100)]], Num(3)]
        effectiveAPY == jsMul[Dec(35, 100), stakingMultiplier]
        totalRewards == jsSub[calculateCompoundedReturns(initialDeposit, effectiveAPY,
                                  jsMul[rewardParams.compoundPeriod, timeHeld]),
                              initialDeposit]
    IN  IF ~topStaker
        THEN [total |-> initialDeposit, sol |-> Num(0), token |-> Num(0), apy |-> Num(0)]
        ELSE [total |-> jsAdd[initialDeposit, totalRewards],
              sol |-> jsMul[totalRewards, rewardParams.solTokenRatio],
              token |-> jsMul[totalRewards, jsSub[rewardParams.solTokenRatio, Num(1)]],
              apy |-> jsMul[effectiveAPY, Num(100)]]

\* Compounding M3M3.
calculateM3M3ReturnsCompound(initialDeposit, entryTime, currentTime, topStaker, rewardParams) ==
    LET timeHeld == TimeHeld(entryTime, currentTime)
        stakingMultiplier == mathMin[jsAdd[Num(1), jsMul[timeHeld, Dec(15, 100)]], Num(3)]
        effectiveAPY == jsMul[Dec(35, 100), stakingMultiplier]
        totalRewards == jsSub[calculateCompoundedReturns(initialDeposit, effectiveAPY,
                                 jsMul[rewardParams.compoundPeriod, timeHeld]),
                             initialDeposit]
    IN  IF ~topStaker
        THEN [total |-> initialDeposit, sol |-> Num(0), token |-> Num(0), apy |-> Num(0)]
        ELSE [total |-> jsAdd[initialDeposit, totalRewards],
              sol |-> jsMul[totalRewards, rewardParams.solTokenRatio],
              token |-> jsMul[totalRewards, jsSub[Num(1), rewardParams.solTokenRatio]],
              apy |-> jsMul[effectiveAPY, Num(100)]]

\* Linear-surge bonding curve.
calculatePumpFunReturns(initialDeposit, currentTime, bondingParams) ==
    LET price ==
            IF jsLess[currentTime, Num(5)]
            THEN jsMul[initialDeposit, jsAdd[Num(1), jsMul[currentTime, Dec(2, 10)]]]
            ELSE IF jsLess[currentTime, Num(10)] THEN jsMul[initialDeposit, Num(2)]
            ELSE jsMul[jsMul[initialDeposit, Num(2)],
                      mathPow[Dec(95, 100), jsSub[currentTime, Num(10)]]]
    IN  [total |-> price, price |-> price,
         liquidity |-> jsMul[price, bondingParams.lpTokenRatio]]

\* Math.sqrt(x * x) is |x| (exactly so in IEEE-754 arithmetic), NaN for NaN.
SqrtOfSquare(x) ==
    IF x.k = "nan" THEN NaN ELSE IF x.k = "inf" THEN PosInf ELSE Fin(absInt[x.v])

\* Variant: virtual-liquidity Gobbler accruing fees on the base liquidity.
calculateGobblerReturnsVirtualBaseFees(initialDeposit, entryTime, currentTime, investmentParams) ==
    LET timeHeld == mathMax[Num(0), jsSub[currentTime, entryTime]]
        earlyBonus == mathMax[Num(0), jsMul[jsSub[Num(5), entryTime], Dec(1, 10)]]
        baseLiquidity == SqrtOfSquare(initialDeposit)
        fees == jsMul[jsMul[jsMul[baseLiquidity, timeHeld], Dec(1, 100)],
                      jsAdd[Num(1), jsMul[timeHeld, Dec(5, 100)]]]
    IN  [total |-> jsAdd[baseLiquidity, fees], liquidity |-> baseLiquidity,
         virtualLiquidity |-> jsMul[baseLiquidity, jsAdd[Num(1), earlyBonus]], fees |-> fees]

\* Variant: virtual-liquidity Gobbler whose total counts the virtual
\* liquidity instead of the base liquidity.
calculateGobblerReturnsVirtualTotal(initialDeposit, entryTime, currentTime, investmentParams) ==
    LET timeHeld == mathMax[Num(0), jsSub[currentTime, entryTime]]
        earlyBonus == mathMax[Num(0), jsMul[jsSub[Num(5), entryTime], Dec(1, 10)]]
        baseLiquidity == SqrtOfSquare(initialDeposit)
        virtualLiquidity == jsMul[baseLiquidity, jsAdd[Num(1), earlyBonus]]
        fees == jsMul[jsMul[jsMul[virtualLiquidity, timeHeld], Dec(1, 100)],
                      jsAdd[Num(1), jsMul[timeHeld, Dec(5, 100)]]]
    IN  [total |-> jsAdd[virtualLiquidity, fees], liquidity |-> baseLiquidity,
         virtualLiquidity |-> virtualLiquidity, fees |-> fees]

\* Variant: virtual-liquidity Gobbler taking the early bonus from the
\* investment parameters.
calculateGobblerReturnsVirtualBoosted(initialDeposit, entryTime, currentTime, investmentParams) ==
    LET timeHeld == TimeHeld(entryTime, currentTime)
        earlyBonus == investmentParams.earlyLPBonus
        baseLiquidity == SqrtOfSquare(initialDeposit)
        virtualLiquidity == jsMul[baseLiquidity, jsAdd[Num(1), earlyBonus]]
        fees == jsMul[jsMul[jsMul[virtualLiquidity, timeHeld], Dec(1, 100)],
                     jsAdd[Num(1), jsMul[timeHeld, Dec(5, 100)]]]
    IN  [total |-> jsAdd[baseLiquidity, fees], liquidity |-> baseLiquidity,
         virtualLiquidity |-> virtualLiquidity, fees |-> fees]

\* Virtual-liquidity Gobbler.
calculateGobblerReturnsVirtual(initialDeposit, entryTime, currentTime, investmentParams) ==
    LET timeHeld == TimeHeld(entryTime, currentTime)
        earlyBonus == mathMax[Num(0), jsMul[jsSub[Num(5), entryTime], Dec(1, 10)]]
        virtualMultiplier == jsAdd[Num(1), earlyBonus]
        baseLiquidity == SqrtOfSquare(initialDeposit)
        virtualLiquidity == jsMul[baseLiquidity, virtualMultiplier]
        fees == jsMul[jsMul[jsMul[virtualLiquidity, timeHeld], Dec(1, 100)],
                     jsAdd[Num(1), jsMul[timeHeld, Dec(5, 100)]]]
    IN  [total |-> jsAdd[baseLiquidity, fees], liquidity |-> baseLiquidity,
         virtualLiquidity |-> virtualLiquidity, fees |-> fees]

\* Variant: one time point short (length timeframe * 2).
timePointsShort(tf) == [j \in 1..(tf * 2) |-> jsDivInt[Num(j - 1), 2]]

\* timePoints = Array.from({length: timeframe * 2 + 1}, (_, i) => i / 2)
timePoints(tf) == [j \in 1..(tf * 2 + 1) |-> jsDivInt[Num(j - 1), 2]]

\* The record pushed for time point t.
halfStepRecord(dep, topStaker, investmentP, bondingP, rewardP, t) ==
    LET m3m3Returns == calculateM3M3ReturnsCompound(dep, Num(0), t, topStaker, rewardP)
        pumpFunReturns == calculatePumpFunReturns(dep, t, bondingP)
        gobblerReturns == calculateGobblerReturnsVirtual(dep, Num(0), t, investmentP)
    IN  [time |-> t,
         m3m3Total |-> m3m3Returns.total, m3m3Sol |-> m3m3Returns.sol,
         m3m3Token |-> m3m3Returns.token, m3m3APY |-> m3m3Returns.apy,
         pumpFunTotal |-> pumpFunReturns.total, pumpFunPrice |-> pumpFunReturns.price,
         pumpFunLiquidity |-> pumpFunReturns.liquidity,
         gobblerTotal |-> gobblerReturns.total, gobblerLiquidity |-> gobblerReturns.liquidity,
         gobblerVirtualLiquidity |-> gobblerReturns.virtualLiquidity,
         gobblerFees |-> gobblerReturns.fees]

\* for (const t of timePoints) data.push(...)
RECURSIVE halfStepLoop(_, _, _, _, _, _, _, _)
halfStepLoop(data, points, j, dep, topStaker, investmentP, bondingP, rewardP) ==
    IF j <= Len(points)
    THEN halfStepLoop(Append(data, halfStepRecord(dep, topStaker, investmentP, bondingP,
                                                  rewardP, points[j])),
                      points, j + 1, dep, topStaker, investmentP, bondingP, rewardP)
    ELSE data

seriesMemo(tf, dep, topStaker, investmentP, bondingP, rewardP) ==
    halfStepLoop(<<>>, timePoints(tf), 1, dep, topStaker, investmentP, bondingP, rewardP)

----------------------------------------------------------------------------
(* State                                                                   *)

VARIABLES
    mounted,                  \* the component rendered: "integer", "half" or "none"
    deposit,                  \* integer-step: useState(1000)
    entryTime,                \* integer-step: useState(0)
    isTopStaker,              \* integer-step: useState(true)
    simulationData,           \* integer-step: useState([])
    effectPending,            \* integer-step: the series effect is scheduled
    firstSeries,              \* history: the first series the mounted component generated
    effectRuns,               \* history: how often the effect has run, up to 2
    timeframe,                \* half-step: useState(10)
    initialDeposit,           \* half-step: useState(1000)
    isTopStakerHalf,          \* half-step: useState(true), it has no control
    investmentParams,         \* half-step: useState({...})
    bondingParams,            \* half-step: useState({...})
    rewardParams,             \* half-step: useState({...})
    generateSimulationData,   \* half-step: the value useMemo holds
    edits,                    \* half-step: handlers run so far
    call,                     \* one function applied on its own: the function and its arguments
    result                    \* one function applied on its own: what it returned

intVars == <<deposit, entryTime, isTopStaker, simulationData, effectPending, firstSeries,
             effectRuns>>
halfVars == <<timeframe, initialDeposit, isTopStakerHalf, investmentParams, bondingParams,
              rewardParams, generateSimulationData, edits>>
fnVars == <<call, result>>
vars == <<mounted, intVars, halfVars, fnVars>>

\* Values the model types into the deposit inputs, in whole units; the
\* inputs' min = 0 does not stop a typed negative number, and an emptied
\* input gives Number("") = 0.
DepositInputs == {1000, 0, -100}

\* The entry-time slider runs from 0 to 20; the model moves it to 0..MaxEntry.
MaxEntry == 6
EntrySliderMax == 20
EntryInputs ==
    (0..(IF MaxEntry < EntrySliderMax THEN MaxEntry ELSE EntrySliderMax)) \cup {EntrySliderMax}

\* Handlers of the half-step component the model runs in one behaviour.
MaxEdits == 2

InitInvestmentParams ==
    [feeDistribution |-> [lp |-> Dec(6, 10), staking |-> Dec(3, 10), protocol |-> Dec(1, 10)],
     baseStakingAPY |-> Dec(25, 100), earlyLPBonus |-> Dec(5, 10), returnTimeframe |-> Num(20)]

\* The market-cap targets are never used in arithmetic and are kept as
\* plain integers.
InitBondingParams ==
    [lpTokenRatio |-> Dec(2, 10), initialMCTarget |-> 1000000, bondingMCTarget |-> 69000000,
     poolThickness |-> Dec(2, 10), curveType |-> "standard"]

InitRewardParams ==
    [solTokenRatio |-> Dec(3, 10), compoundPeriod |-> Num(1),
     lockDurationMultiplier |-> Num(1), showCombinedRewards |-> TRUE]

InitInteger ==
    /\ deposit = Num(1000)
    /\ entryTime = Num(0)
    /\ isTopStaker = TRUE
    /\ simulationData = <<>>
    /\ effectRuns = 0

InitHalf ==
    /\ timeframe = 10
    /\ initialDeposit = Num(1000)
    /\ isTopStakerHalf = TRUE
    /\ investmentParams = InitInvestmentParams
    /\ bondingParams = InitBondingParams
    /\ rewardParams = InitRewardParams
    /\ generateSimulationData =
           seriesMemo(10, Num(1000), TRUE, InitInvestmentParams, InitBondingParams,
                      InitRewardParams)
    /\ edits = 0

InitFn ==
    /\ call = [fn |-> "none"]
    /\ result = <<>>

\* After the first render of the mounted component: the integer-step
\* component has rendered an empty series and its effect is scheduled.
Init ==
    /\ mounted \in {"integer", "half"}
    /\ InitInteger
    /\ InitHalf
    /\ InitFn
    /\ effectPending = (mounted = "integer")
    /\ firstSeries = IF mounted = "half" THEN generateSimulationData ELSE <<>>

----------------------------------------------------------------------------
(* Integer-step component: handlers and the effect                         *)

\* Variant: a dependency array that leaves out entryTime.
effectDepsWithoutEntry(dep, entry, topStaker) == <<dep, topStaker>>

\* The dependency array of the effect.
effectDeps(dep, entry, topStaker) == <<dep, entry, topStaker>>

\* Variant: the effect pushing onto the series it already holds instead of
\* a fresh newData.
RunEffectAccumulating ==
    /\ mounted = "integer"
    /\ effectPending
    /\ simulationData' = simulationData \o seriesEffect(deposit, entryTime, isTopStaker)
    /\ effectPending' = FALSE
    /\ firstSeries' = IF effectRuns = 0 THEN simulationData' ELSE firstSeries
    /\ effectRuns' = IF effectRuns < 2 THEN effectRuns + 1 ELSE effectRuns
    /\ UNCHANGED <<mounted, deposit, entryTime, isTopStaker, halfVars, fnVars>>

\* The effect of useEffect(..., [deposit, entryTime, isTopStaker]): a fresh
\* newData is filled and stored.
RunEffect ==
    /\ mounted = "integer"
    /\ effectPending
    /\ simulationData' = seriesEffect(deposit, entryTime, isTopStaker)
    /\ effectPending' = FALSE
    /\ firstSeries' = IF effectRuns = 0 THEN simulationData' ELSE firstSeries
    /\ effectRuns' = IF effectRuns < 2 THEN effectRuns + 1 ELSE effectRuns
    /\ UNCHANGED <<mounted, deposit, entryTime, isTopStaker, halfVars, fnVars>>

\* A state setter and the render that follows it: the render schedules the
\* effect when a dependency changed.  React runs a scheduled effect before it
\* processes the next update, so a handler finds no effect pending.
renderInteger(dep, entry, topStaker) ==
    /\ mounted = "integer"
    /\ ~effectPending
    /\ deposit' = dep
    /\ entryTime' = entry
    /\ isTopStaker' = topStaker
    /\ effectPending' = (effectDeps(dep, entry, topStaker)
                            # effectDeps(deposit, entryTime, isTopStaker))
    /\ UNCHANGED <<mounted, simulationData, firstSeries, effectRuns, halfVars, fnVars>>

setDeposit(value) == renderInteger(value, entryTime, isTopStaker)
setEntryTime(value) == renderInteger(deposit, value, isTopStaker)
setIsTopStaker(checked) == renderInteger(deposit, entryTime, checked)

\* onChange={(e) => setDeposit(Number(e.target.value))}
DepositChange == \E n \in DepositInputs : setDeposit(Num(n))
\* Variant: a slider whose maximum lies one period past the horizon.
EntryTimeChangePastHorizon == \E n \in EntryInputs \cup {TimeHorizon + 1} : setEntryTime(Num(n))
\* onValueChange={([value]) => setEntryTime(value)}
EntryTimeChange == \E n \in EntryInputs : setEntryTime(Num(n))
\* onCheckedChange={(checked) => setIsTopStaker(!!checked)}
TopStakerChange == \E b \in BOOLEAN : setIsTopStaker(b)

NextInteger == RunEffect \/ DepositChange \/ EntryTimeChange \/ TopStakerChange

----------------------------------------------------------------------------
(* Half-step component: handlers                                           *)

\* {...obj, [field]: value}
withField(obj, field, value) == [obj EXCEPT ![field] = value]

\* The dependency array of useMemo; an object dependency is compared by
\* identity, and every setXParams({...}) call passes a fresh object.
memoDepsChanged(tf, dep, freshObject) ==
    tf # timeframe \/ dep # initialDeposit \/ freshObject

\* A state setter of the half-step component and the render that follows it.
renderHalf(tf, dep, investmentP, bondingP, rewardP, freshObject) ==
    /\ mounted = "half"
    /\ edits < MaxEdits
    /\ edits' = edits + 1
    /\ timeframe' = tf
    /\ initialDeposit' = dep
    /\ investmentParams' = investmentP
    /\ bondingParams' = bondingP
    /\ rewardParams' = rewardP
    /\ generateSimulationData' =
           IF memoDepsChanged(tf, dep, freshObject)
           THEN seriesMemo(tf, dep, isTopStakerHalf, investmentP, bondingP, rewardP)
           ELSE generateSimulationData
    /\ UNCHANGED <<mounted, isTopStakerHalf, intVars, fnVars>>

setInitialDeposit(value) ==
    renderHalf(timeframe, value, investmentParams, bondingParams, rewardParams, FALSE)
setTimeframe(value) ==
    renderHalf(value, initialDeposit, investmentParams, bondingParams, rewardParams, FALSE)
setInvestmentParams(value) ==
    renderHalf(timeframe, initialDeposit, value, bondingParams, rewardParams, TRUE)
setBondingParams(value) ==
    renderHalf(timeframe, initialDeposit, investmentParams, value, rewardParams, TRUE)
setRewardParams(value) ==
    renderHalf(timeframe, initialDeposit, investmentParams, bondingParams, value, TRUE)

\* Positions the model moves the timeframe slider (1..20) to.
TimeframeSliderInputs == {2, 11}
\* The options of the entry-point select.
TimeframeOptions == {1, 5, 10}
\* Positions the model moves a 0..100 slider to, and the 0..200 one.
PercentSliderInputs == {100}
BoostSliderInputs == {200}
\* Numbers the model types into a percent input (min and max do not stop a
\* typed value outside 0..100).
PercentInputs == {150}
\* Numbers the model types into a fee-share input, one of them within 0..100.
FeePercentInputs == {50, 150}
EarlyBonusOptions == {Dec(5, 10), Dec(25, 100), Num(0)}
LockDurationOptions == {1, 2, 3}
CurveTypeOptions == {"standard", "quadratic"}
MCTargetOptions == {69000, 420000, 1000000}

InitialDepositChange == \E n \in DepositInputs : setInitialDeposit(Num(n))
TimeframeSlide == \E n \in TimeframeSliderInputs : setTimeframe(n)
TimeframeSelect == \E n \in TimeframeOptions : setTimeframe(n)

SolTokenRatioSlide ==
    \E n \in PercentSliderInputs :
        setRewardParams(withField(rewardParams, "solTokenRatio", jsDivInt[Num(n), 100]))
SolPercentInput ==
    \E n \in PercentInputs :
        setRewardParams(withField(rewardParams, "solTokenRatio", jsDivInt[Num(n), 100]))
TokenPercentInput ==
    \E n \in PercentInputs :
        setRewardParams(withField(rewardParams, "solTokenRatio",
                                  jsDivInt[jsSub[Num(100), Num(n)], 100]))
LockDurationSelect ==
    \E n \in LockDurationOptions :
        setRewardParams(withField(rewardParams, "lockDurationMultiplier", Num(n)))

EarlyLPBonusSelect ==
    \E x \in EarlyBonusOptions :
        setInvestmentParams(withField(investmentParams, "earlyLPBonus", x))
EarlyLPBonusSlide ==
    \E n \in BoostSliderInputs :
        setInvestmentParams(withField(investmentParams, "earlyLPBonus", jsDivInt[Num(n), 100]))
BaseStakingAPYSlide ==
    \E n \in PercentSliderInputs :
        setInvestmentParams(withField(investmentParams, "baseStakingAPY",
                                      jsDivInt[Num(n), 100]))
\* Variant: feeDistribution: {[share]: value}, without the inner spread; the
\* shares left out read as undefined, NaN as a number.
feeShareInputNoSpread(share) ==
    \E n \in FeePercentInputs :
        setInvestmentParams(withField(investmentParams, "feeDistribution",
            [s \in {"lp", "staking", "protocol"} |->
                IF s = share THEN jsDivInt[Num(n), 100] ELSE NaN]))

\* {...investmentParams, feeDistribution: {...investmentParams.feeDistribution, [share]: value}}
feeShareInput(share) ==
    \E n \in FeePercentInputs :
        setInvestmentParams(withField(investmentParams, "feeDistribution",
            withField(investmentParams.feeDistribution, share, jsDivInt[Num(n), 100])))
FeeLpInput == feeShareInput("lp")
FeeProtocolInput == feeShareInput("protocol")
FeeStakingInput == feeShareInput("staking")

CurveTypeSelect ==
    \E c \in CurveTypeOptions : setBondingParams(withField(bondingParams, "curveType", c))
MCTargetSelect ==
    \E n \in MCTargetOptions :
        setBondingParams(withField(bondingParams, "bondingMCTarget", n))
LpTokenRatioInput ==
    \E n \in PercentInputs :
        setBondingParams(withField(bondingParams, "lpTokenRatio", jsDivInt[Num(n), 100]))
PoolThicknessInput ==
    \E n \in PercentInputs :
        setBondingParams(withField(bondingParams, "poolThickness", jsDivInt[Num(n), 100]))

RewardEdit == SolTokenRatioSlide \/ SolPercentInput \/ TokenPercentInput \/ LockDurationSelect
InvestmentEdit ==
    \/ EarlyLPBonusSelect \/ EarlyLPBonusSlide \/ BaseStakingAPYSlide
    \/ FeeLpInput \/ FeeProtocolInput \/ FeeStakingInput
BondingEdit == CurveTypeSelect \/ MCTargetSelect \/ LpTokenRatioInput \/ PoolThicknessInput

NextHalf ==
    \/ InitialDepositChange \/ TimeframeSlide \/ TimeframeSelect
    \/ RewardEdit \/ InvestmentEdit \/ BondingEdit

----------------------------------------------------------------------------
(* The rendered dashboard                                                  *)

Next == NextInteger \/ NextHalf

Spec == Init /\ [][Next]_vars

----------------------------------------------------------------------------
(* The functions on their own: one application of one function to          *)
(* arguments from bounded sets, out-of-range values included               *)

FnDeposits == {1000, 1, 0, -100}
\* Entry times in whole periods; 25 lies beyond the 20 periods simulated.
FnEntries == {0, 1, 4, 5, 12, 25}
\* Times run over the half steps 0, 0.5, ..., MaxFnTime.
MaxFnTime == 12
FnTimes == {jsDivInt[Num(j), 2] : j \in 0..(2 * MaxFnTime)}
\* A time far beyond the simulated periods, where a decaying price has
\* fallen under a tenth of the deposit.
FnLateTimes == {Num(4 * TimeHorizon)}
FnCompoundPeriods == {Dec(-5, 10), Num(0), Num(1), Num(2)}
FnRatios == {Dec(3, 10), Num(0), Num(1), Dec(15, 10)}
FnRewardParams ==
    {[InitRewardParams EXCEPT !.compoundPeriod = cp, !.solTokenRatio = r] :
        cp \in FnCompoundPeriods, r \in FnRatios}
FnBondingParams ==
    {[InitBondingParams EXCEPT !.lpTokenRatio = r, !.curveType = c] :
        r \in FnRatios, c \in CurveTypeOptions}
\* The timeframe slider runs from 1 to 20.
TimeframeSliderMin == 1
TimeframeSliderMax == 20
FnSeriesRewardParams ==
    {[InitRewardParams EXCEPT !.compoundPeriod = cp] : cp \in FnCompoundPeriods}

InitFnSpec ==
    /\ mounted = "none"
    /\ InitInteger
    /\ InitHalf
    /\ InitFn
    /\ effectPending = FALSE
    /\ firstSeries = <<>>

\* No function has been applied yet.
ready == mounted = "none" /\ call.fn = "none"

apply(fn, args, value) ==
    /\ call' = [fn |-> fn, args |-> args]
    /\ result' = value
    /\ UNCHANGED <<mounted, intVars, halfVars>>

ApplyGobbler ==
    ready /\ \E d \in FnDeposits, e \in FnEntries, t \in FnTimes :
        apply("calculateGobblerReturns",
              [initialDeposit |-> Num(d), entryTime |-> Num(e), currentTime |-> t],
              calculateGobblerReturns(Num(d), Num(e), t))

ApplySnapper ==
    ready /\ \E d \in FnDeposits, e \in FnEntries, t \in FnTimes :
        apply("calculateSnapperReturns",
              [initialDeposit |-> Num(d), entryTime |-> Num(e), currentTime |-> t],
              calculateSnapperReturns(Num(d), Num(e), t))

ApplyRipper ==
    ready /\ \E d \in FnDeposits, e \in FnEntries, t \in FnTimes, b \in BOOLEAN :
        apply("calculateRipperReturns",
              [initialDeposit |-> Num(d), entryTime |-> Num(e), currentTime |-> t,
               isTopStaker |-> b],
              calculateRipperReturns(Num(d), Num(e), t, b))

ApplyM3M3 ==
    ready /\ \E d \in FnDeposits, e \in FnEntries, t \in FnTimes, b \in BOOLEAN :
        apply("calculateM3M3Returns",
              [initialDeposit |-> Num(d), entryTime |-> Num(e), currentTime |-> t,
               isTopStaker |-> b],
              calculateM3M3Returns(Num(d), Num(e), t, b))

ApplyM3M3Compound ==
    ready /\ \E d \in FnDeposits, e \in FnEntries, t \in FnTimes, b \in BOOLEAN,
       rp \in FnRewardParams :
        apply("calculateM3M3ReturnsCompound",
              [initialDeposit |-> Num(d), entryTime |-> Num(e), currentTime |-> t,
               isTopStaker |-> b, rewardParams |-> rp],
              calculateM3M3ReturnsCompound(Num(d), Num(e), t, b, rp))

ApplyPumpFun ==
    ready /\ \E d \in FnDeposits, t \in FnTimes \cup FnLateTimes, bp \in FnBondingParams :
        apply("calculatePumpFunReturns",
              [initialDeposit |-> Num(d), currentTime |-> t, bondingParams |-> bp],
              calculatePumpFunReturns(Num(d), t, bp))

ApplyGobblerVirtual ==
    ready /\ \E d \in FnDeposits, e \in FnEntries, t \in FnTimes :
        apply("calculateGobblerReturnsVirtual",
              [initialDeposit |-> Num(d), entryTime |-> Num(e), currentTime |-> t,
               investmentParams |-> InitInvestmentParams],
              calculateGobblerReturnsVirtual(Num(d), Num(e), t, InitInvestmentParams))

ApplySeriesEffect ==
    ready /\ \E d \in FnDeposits, e \in FnEntries, b \in BOOLEAN :
        apply("seriesEffect",
              [deposit |-> Num(d), entryTime |-> Num(e), isTopStaker |-> b],
              seriesEffect(Num(d), Num(e), b))

ApplySeriesMemo ==
    ready /\ \E tf \in TimeframeSliderMin..TimeframeSliderMax, d \in DepositInputs, b \in BOOLEAN,
       rp \in FnSeriesRewardParams :
        apply("seriesMemo",
              [timeframe |-> tf, initialDeposit |-> Num(d), isTopStaker |-> b,
               investmentParams |-> InitInvestmentParams,
               bondingParams |-> InitBondingParams, rewardParams |-> rp],
              seriesMemo(tf, Num(d), b, InitInvestmentParams, InitBondingParams, rp))

ApplyMCMultiplier ==
    ready /\ \E t \in FnTimes :
        apply("calculateMCMultiplier", [time |-> t],
              [marketCapMultiplier |-> calculateMCMultiplier(t)])

NextFn ==
    \/ ApplyGobbler \/ ApplySnapper \/ ApplyRipper \/ ApplyM3M3 \/ ApplyM3M3Compound
    \/ ApplyPumpFun \/ ApplyGobblerVirtual \/ ApplySeriesEffect \/ ApplySeriesMemo
    \/ ApplyMCMultiplier

SpecFn == InitFnSpec /\ [][NextFn]_vars


----------------------------------------------------------------------------
(* Properties                                                              *)

\* Largest difference, in units of 1/Scale, between two fixed-point sums of
\* the same terms rounded separately.
RoundingTolerance == 2

near(a, b) == a.k = "fin" /\ b.k = "fin" /\ absInt[a.v - b.v] <= RoundingTolerance

\* The integer-step component has processed the last change: its effect has run.
settledInteger == mounted = "integer" /\ ~effectPending

\* C1: at every point of a generated series each model's total is the sum of
\* the components shown beside it: M3M3 = deposit + SOL + token rewards,
\* virtual-liquidity Gobbler = liquidity + fees, Ripper = principal part
\* (LP tokens and non-LP value) + AMM fees + staking rewards.
TotalsReconcile ==
    /\ settledInteger =>
        \A i \in 1..Len(simulationData) :
            LET p == simulationData[i]
            IN  /\ near(p.m3m3Total, jsAdd[jsAdd[deposit, p.m3m3Sol], p.m3m3Token])
                /\ near(p.ripperTotal,
                        jsAdd[jsAdd[jsAdd[ripperLpTokens(deposit, entryTime),
                                          ripperNonLPValue(deposit, p.time)],
                                    p.ripperAMM],
                              p.ripperStaking])
    /\ mounted = "half" =>
        \A i \in 1..Len(generateSimulationData) :
            LET p == generateSimulationData[i]
            IN  /\ near(p.m3m3Total, jsAdd[jsAdd[initialDeposit, p.m3m3Sol], p.m3m3Token])
                /\ near(p.gobblerTotal, jsAdd[p.gobblerLiquidity, p.gobblerFees])

\* C1 case: the half-step component after an edit, showing a series whose
\* last point has rewards and fees.
TotalsReconcileCase ==
    /\ mounted = "half"
    /\ edits > 0
    /\ LET p == generateSimulationData[Len(generateSimulationData)]
       IN  p.m3m3Sol.v > 0 /\ p.m3m3Token.v > 0 /\ p.gobblerFees.v > 0

\* The function applied has entryTime and currentTime arguments.
timedCall ==
    call.fn \in {"calculateGobblerReturns", "calculateSnapperReturns", "calculateRipperReturns",
                 "calculateM3M3Returns", "calculateM3M3ReturnsCompound",
                 "calculateGobblerReturnsVirtual"}

entryAfterNow == timedCall /\ jsLess[call.args.currentTime, call.args.entryTime]

\* C2: the elapsed time is never negative, and for a point before the entry
\* time every time-dependent component has its value at timeHeld = 0: no
\* fees, no rewards, the principal only.
ClampedBeforeEntry ==
    /\ timedCall => TimeHeld(call.args.entryTime, call.args.currentTime).v >= 0
    /\ entryAfterNow =>
        LET d == call.args.initialDeposit
            e == call.args.entryTime
        IN  /\ call.fn = "calculateGobblerReturns" =>
                result.gobblerTotal = gobblerLpTokens(d, e)
            /\ call.fn = "calculateSnapperReturns" => result.snapperTotal = d
            /\ call.fn = "calculateRipperReturns" =>
                /\ result.ripperAMM = Num(0)
                /\ result.ripperStaking = Num(0)
                /\ result.ripperTotal =
                       jsAdd[ripperLpTokens(d, e), ripperNonLPValue(d, call.args.currentTime)]
            /\ call.fn = "calculateM3M3Returns" =>
                /\ result.m3m3Sol = Num(0)
                /\ result.m3m3Token = Num(0)
                /\ result.m3m3Total = d
            /\ call.fn = "calculateM3M3ReturnsCompound" =>
                /\ result.sol = Num(0)
                /\ result.token = Num(0)
                /\ result.total = d
            /\ call.fn = "calculateGobblerReturnsVirtual" =>
                /\ result.fees = Num(0)
                /\ result.total = result.liquidity

\* C2 case: the Ripper model applied for a top staker at a time before the
\* entry time.
ClampedBeforeEntryCase ==
    /\ call.fn = "calculateRipperReturns"
    /\ entryAfterNow
    /\ call.args.isTopStaker
    /\ call.args.initialDeposit = Num(1000)

\* The parameters are the ones the component was constructed with.
initialParameters ==
    IF mounted = "integer"
    THEN deposit = Num(1000) /\ entryTime = Num(0) /\ isTopStaker
    ELSE /\ timeframe = 10
         /\ initialDeposit = Num(1000)
         /\ investmentParams = InitInvestmentParams
         /\ bondingParams = InitBondingParams
         /\ rewardParams = InitRewardParams

\* C3: a series depends on the parameters alone: whenever the parameters
\* are back at the values of the first generation, the series held is the
\* first series again, whatever was generated in between.
SameParametersSameSeries ==
    /\ settledInteger /\ initialParameters => simulationData = firstSeries
    /\ mounted = "half" /\ initialParameters => generateSimulationData = firstSeries

\* C3 case: the integer-step component back at its initial parameters after
\* the effect has run at least twice.
SameParametersSameSeriesCase ==
    settledInteger /\ initialParameters /\ effectRuns = 2

\* C4: the integer-step series has timeHorizon + 1 points and point i
\* (from 0) has time i.
IntegerStepGrid ==
    settledInteger =>
        /\ Len(simulationData) = TimeHorizon + 1
        /\ \A i \in 1..Len(simulationData) : simulationData[i].time = Num(i - 1)

\* C4 case: the effect has run for a changed deposit.
IntegerStepGridCase == settledInteger /\ effectRuns = 2 /\ deposit = Num(-100)

\* C5: the half-step series has 2 * timeHorizon + 1 points, point i (from 0)
\* has time i / 2 and the last point has time timeHorizon, for every
\* position of the timeframe slider.
HalfStepGrid ==
    call.fn = "seriesMemo" =>
        /\ Len(result) = 2 * call.args.timeframe + 1
        /\ \A i \in 1..Len(result) :
            result[i].time.k = "fin" /\ 2 * result[i].time.v = (i - 1) * Scale
        /\ result[Len(result)].time = Num(call.args.timeframe)

\* C5 case: the series generated for the slider's maximum.
HalfStepGridCase == call.fn = "seriesMemo" /\ call.args.timeframe = TimeframeSliderMax

notTopStakerPoint(p, dep) ==
    p.m3m3Sol = Num(0) /\ p.m3m3Token = Num(0) /\ p.m3m3Total = dep

\* C6: for a holder who is not a top staker both M3M3 variants return SOL
\* rewards, token rewards and APY of 0 and a total equal to the deposit, at
\* every time and at every point of a series.
NoRewardsUnlessTopStaker ==
    /\ call.fn = "calculateM3M3Returns" /\ ~call.args.isTopStaker =>
        notTopStakerPoint(result, call.args.initialDeposit)
    /\ call.fn = "calculateM3M3ReturnsCompound" /\ ~call.args.isTopStaker =>
        /\ result.sol = Num(0)
        /\ result.token = Num(0)
        /\ result.apy = Num(0)
        /\ result.total = call.args.initialDeposit
    /\ call.fn = "seriesEffect" /\ ~call.args.isTopStaker =>
        \A i \in 1..Len(result) : notTopStakerPoint(result[i], call.args.deposit)
    /\ call.fn = "seriesMemo" /\ ~call.args.isTopStaker =>
        \A i \in 1..Len(result) :
            notTopStakerPoint(result[i], call.args.initialDeposit) /\ result[i].m3m3APY = Num(0)

\* C6 case: the linear-accrual M3M3 applied for a holder who is not a top
\* staker, some time after entry.
NoRewardsUnlessTopStakerCase ==
    /\ call.fn = "calculateM3M3Returns"
    /\ ~call.args.isTopStaker
    /\ jsLess[call.args.entryTime, call.args.currentTime]
    /\ call.args.initialDeposit = Num(1000)

\* C7: once a parameter change has been processed the series held is the
\* one generated from the current parameters, every point of it.
SeriesFollowsParameters ==
    /\ settledInteger => simulationData = seriesEffect(deposit, entryTime, isTopStaker)
    /\ mounted = "half" =>
        generateSimulationData =
            seriesMemo(timeframe, initialDeposit, isTopStakerHalf, investmentParams,
                       bondingParams, rewardParams)

\* C7 case: the effect has run after the entry time was moved.
SeriesFollowsParametersCase == settledInteger /\ entryTime = Num(MaxEntry) /\ effectRuns = 2

allFinite(r) == \A f \in DOMAIN r : r[f].k = "fin"

\* C8: no numeric field a model returns is NaN or Infinity, whatever the
\* numeric parameters, out-of-range ones included.
AlwaysFinite ==
    /\ timedCall \/ call.fn = "calculatePumpFunReturns" => allFinite(result)
    /\ call.fn \in {"seriesEffect", "seriesMemo"} =>
        \A i \in 1..Len(result) : allFinite(result[i])

inUnit(x) == jsLeq[Num(0), x] /\ jsLeq[x, Num(1)]

\* The arguments of the function applied are valid: a positive deposit, an
\* entry time within the horizon, ratios in 0..1, at least one compounding
\* period.
validArgs ==
    LET a == call.args
        has(f) == f \in DOMAIN a
    IN  /\ call.fn # "none"
        /\ has("initialDeposit") => a.initialDeposit.v > 0
        /\ has("deposit") => a.deposit.v > 0
        /\ has("entryTime") => jsLeq[Num(0), a.entryTime] /\ jsLeq[a.entryTime, Num(TimeHorizon)]
        /\ has("rewardParams") =>
            inUnit(a.rewardParams.solTokenRatio) /\ jsLeq[Num(1), a.rewardParams.compoundPeriod]
        /\ has("bondingParams") =>
            inUnit(a.bondingParams.lpTokenRatio) /\ inUnit(a.bondingParams.poolThickness)

nonNegative(r) == \A f \in DOMAIN r : r[f].k = "fin" /\ r[f].v >= 0

\* C9: for valid parameters every numeric field of every generated point is
\* non-negative.
ValidNonNegative ==
    validArgs =>
        IF call.fn \in {"seriesEffect", "seriesMemo"}
        THEN \A i \in 1..Len(result) : nonNegative(result[i])
        ELSE nonNegative(result)

\* C9 case: the compounding M3M3 applied to valid arguments with token
\* rewards to pay.
ValidNonNegativeCase ==
    /\ call.fn = "calculateM3M3ReturnsCompound"
    /\ validArgs
    /\ call.args.isTopStaker
    /\ result.token.v > 0

\* Every field of the half-step component's parameters, by its path.
ParameterPaths ==
    {"timeframe", "initialDeposit", "isTopStaker",
     "investmentParams.feeDistribution.lp", "investmentParams.feeDistribution.staking",
     "investmentParams.feeDistribution.protocol", "investmentParams.baseStakingAPY",
     "investmentParams.earlyLPBonus", "investmentParams.returnTimeframe",
     "bondingParams.lpTokenRatio", "bondingParams.initialMCTarget",
     "bondingParams.bondingMCTarget", "bondingParams.poolThickness", "bondingParams.curveType",
     "rewardParams.solTokenRatio", "rewardParams.compoundPeriod",
     "rewardParams.lockDurationMultiplier", "rewardParams.showCombinedRewards"}

parameterAt(path) ==
    CASE path = "timeframe" -> timeframe
      [] path = "initialDeposit" -> initialDeposit
      [] path = "isTopStaker" -> isTopStakerHalf
      [] path = "investmentParams.feeDistribution.lp" -> investmentParams.feeDistribution.lp
      [] path = "investmentParams.feeDistribution.staking" ->
            investmentParams.feeDistribution.staking
      [] path = "investmentParams.feeDistribution.protocol" ->
            investmentParams.feeDistribution.protocol
      [] path = "investmentParams.baseStakingAPY" -> investmentParams.baseStakingAPY
      [] path = "investmentParams.earlyLPBonus" -> investmentParams.earlyLPBonus
      [] path = "investmentParams.returnTimeframe" -> investmentParams.returnTimeframe
      [] path = "bondingParams.lpTokenRatio" -> bondingParams.lpTokenRatio
      [] path = "bondingParams.initialMCTarget" -> bondingParams.initialMCTarget
      [] path = "bondingParams.bondingMCTarget" -> bondingParams.bondingMCTarget
      [] path = "bondingParams.poolThickness" -> bondingParams.poolThickness
      [] path = "bondingParams.curveType" -> bondingParams.curveType
      [] path = "rewardParams.solTokenRatio" -> rewardParams.solTokenRatio
      [] path = "rewardParams.compoundPeriod" -> rewardParams.compoundPeriod
      [] path = "rewardParams.lockDurationMultiplier" -> rewardParams.lockDurationMultiplier
      [] path = "rewardParams.showCombinedRewards" -> rewardParams.showCombinedRewards

parameters == [path \in ParameterPaths |-> parameterAt(path)]

\* C10: a handler that updates one field of a parameter group leaves every
\* other field of that group, and every other parameter, at its previous
\* value.
OneFieldPerEdit ==
    [][mounted = "half" =>
        Cardinality({path \in ParameterPaths : parameters'[path] # parameters[path]}) <= 1]_vars

\* C10 case: two edits of different groups, both still in place.
OneFieldPerEditCase ==
    /\ mounted = "half"
    /\ edits = 2
    /\ investmentParams.feeDistribution.lp = Dec(15, 10)
    /\ investmentParams.feeDistribution.staking = Dec(3, 10)
    /\ bondingParams.curveType = "quadratic"


\* The price the linear-surge curve is specified to give.
linearSurgePrice(dep, t) ==
    IF jsLess[t, Num(5)] THEN jsMul[dep, jsAdd[Num(1), jsMul[t, Dec(2, 10)]]]
    ELSE IF jsLess[t, Num(10)] THEN jsMul[dep, Num(2)]
    ELSE mathMax[jsMul[jsMul[dep, Num(2)], mathPow[Dec(95, 100), jsSub[t, Num(10)]]],
                 jsMul[dep, Dec(1, 10)]]

\* C11: the linear-surge curve gives deposit * (1 + 0.2 t) for t < 5,
\* deposit * 2 for 5 <= t < 10 and max(deposit * 2 * 0.95^(t-10),
\* deposit * 0.1) from t = 10 on, so a positive deposit's price stays at or
\* above a tenth of the deposit; total = price, liquidity = price * lpTokenRatio.
LinearSurgeCurve ==
    call.fn = "calculatePumpFunReturns" =>
        LET d == call.args.initialDeposit
            t == call.args.currentTime
        IN  /\ result.price = linearSurgePrice(d, t)
            /\ d.v > 0 /\ jsLeq[Num(10), t] => jsLeq[jsMul[d, Dec(1, 10)], result.price]
            /\ result.total = result.price
            /\ result.liquidity = jsMul[result.price, call.args.bondingParams.lpTokenRatio]

\* The value the exponential-surge curve is specified to give at integer t.
exponentialSurgeValue(dep, t) ==
    IF t < 5 THEN jsMul[dep, mathPow[Dec(15, 10), Num(t)]]
    ELSE IF t < 10 THEN jsMul[dep, mathPow[Dec(12, 10), Num(t)]]
    ELSE mathMax[jsMul[dep, mathPow[Dec(9, 10), Num(t - 10)]], jsMul[dep, Dec(1, 10)]]

LinearAccrual ==
    call.fn = "calculateM3M3Returns" /\ call.args.isTopStaker =>
        LET d == call.args.initialDeposit
            timeHeld == mathMax[Num(0), jsSub[call.args.currentTime, call.args.entryTime]]
            totalRewards ==
                jsMul[jsMul[d, jsMul[Dec(35, 100),
                                     mathMin[jsAdd[Num(1), jsMul[Dec(15, 100), timeHeld]],
                                             Num(3)]]],
                      jsDivInt[timeHeld, 20]]
        IN  /\ result.m3m3Sol = jsMul[totalRewards, Dec(3, 10)]
            /\ result.m3m3Token = jsMul[totalRewards, Dec(7, 10)]
            /\ result.m3m3Total = jsAdd[jsAdd[d, result.m3m3Sol], result.m3m3Token]
            /\ d = Num(1000) /\ call.args.entryTime = Num(0) /\ call.args.currentTime = Num(10) =>
                /\ result.m3m3Sol = Dec(13125, 100)
                /\ result.m3m3Token = Dec(30625, 100)
                /\ result.m3m3Total = Dec(14375, 10)

\* C13 case: the worked example.
LinearAccrualCase ==
    /\ call.fn = "calculateM3M3Returns"
    /\ call.args.isTopStaker
    /\ call.args.initialDeposit = Num(1000)
    /\ call.args.entryTime = Num(0)
    /\ call.args.currentTime = Num(10)


\* The elapsed time of the function applied.
callTimeHeld == mathMax[Num(0), jsSub[call.args.currentTime, call.args.entryTime]]

\* C14: for a top staker the compounding M3M3 pays totalRewards =
\* deposit * (1 + effectiveAPY / compoundPeriod)^(compoundPeriod * timeHeld)
\* - deposit with effectiveAPY = 0.35 * min(1 + 0.15 timeHeld, 3), split by
\* solTokenRatio into SOL and token.  Stated for at least one compounding
\* period and up to 3 periods held, where the compounded value stays within
\* the numbers represented.
CompoundAccrual ==
    /\ call.fn = "calculateM3M3ReturnsCompound"
    /\ call.args.isTopStaker
    /\ jsLeq[Num(1), call.args.rewardParams.compoundPeriod]
    /\ jsLeq[callTimeHeld, Num(3)]
    => LET d == call.args.initialDeposit
           cp == call.args.rewardParams.compoundPeriod
           ratio == call.args.rewardParams.solTokenRatio
           effectiveAPY ==
               jsMul[Dec(35, 100),
                     mathMin[jsAdd[Num(1), jsMul[Dec(15, 100), callTimeHeld]], Num(3)]]
           totalRewards ==
               jsSub[jsMul[d, mathPow[jsAdd[Num(1), jsDiv[effectiveAPY, cp]],
                                      jsMul[cp, callTimeHeld]]],
                     d]
       IN  /\ result.total = jsAdd[d, totalRewards]
           /\ result.sol = jsMul[totalRewards, ratio]
           /\ result.token = jsMul[totalRewards, jsSub[Num(1), ratio]]

\* C15: the simple Gobbler gives gobblerTotal = lpTokens + lpTokens *
\* timeHeld * 0.015 with lpTokens = deposit * max(2 - entryTime / 5, 1), for
\* every deposit, entry time and t; deposit 1000 entered at 0 gives 2000 at
\* t = 0.
SimpleGobbler ==
    call.fn = "calculateGobblerReturns" =>
        LET d == call.args.initialDeposit
            lpTokens == jsMul[d, mathMax[jsSub[Num(2), jsDivInt[call.args.entryTime, 5]], Num(1)]]
        IN  /\ result.gobblerTotal =
                   jsAdd[lpTokens, jsMul[jsMul[lpTokens, callTimeHeld], Dec(15, 1000)]]
            /\ d = Num(1000) /\ call.args.entryTime = Num(0) /\ call.args.currentTime = Num(0) =>
                result.gobblerTotal = Num(2000)

\* C15 case: a deposit entered after the early multiplier has run out, held
\* for some time.
SimpleGobblerCase ==
    /\ call.fn = "calculateGobblerReturns"
    /\ call.args.initialDeposit = Num(1000)
    /\ call.args.entryTime = Num(12)
    /\ call.args.currentTime = Num(MaxFnTime)
    /\ result.gobblerTotal = Num(1000)

\* The richer Gobbler's figures for a base liquidity b.
virtualGobblerOn(b) ==
    LET virtualLiquidity ==
            jsMul[b, jsAdd[Num(1), jsMul[mathMax[Num(0), jsSub[Num(5), call.args.entryTime]],
                                         Dec(1, 10)]]]
        fees == jsMul[jsMul[jsMul[virtualLiquidity, callTimeHeld], Dec(1, 100)],
                      jsAdd[Num(1), jsMul[callTimeHeld, Dec(5, 100)]]]
    IN  /\ result.liquidity = b
        /\ result.virtualLiquidity = virtualLiquidity
        /\ result.fees = fees
        /\ result.total = jsAdd[b, fees]

\* C16 as stated: in the richer Gobbler virtualLiquidity = baseLiquidity *
\* (1 + max(0, 5 - entryTime) * 0.1), fees = virtualLiquidity * timeHeld *
\* 0.01 * (1 + timeHeld * 0.05) and total = baseLiquidity + fees, where
\* baseLiquidity is the deposit.
VirtualGobblerOnDeposit ==
    call.fn = "calculateGobblerReturnsVirtual" => virtualGobblerOn(call.args.initialDeposit)

\* C16 amended: the same figures, where baseLiquidity is the magnitude of
\* the deposit, sqrt(deposit * deposit): the deposit itself when it is not
\* negative.
VirtualGobblerOnMagnitude ==
    call.fn = "calculateGobblerReturnsVirtual" =>
        /\ virtualGobblerOn(Fin(absInt[call.args.initialDeposit.v]))
        /\ call.args.initialDeposit.v >= 0 => result.liquidity = call.args.initialDeposit

\* C16 case: a negative deposit entered early and held for some time.
VirtualGobblerOnMagnitudeCase ==
    /\ call.fn = "calculateGobblerReturnsVirtual"
    /\ call.args.initialDeposit = Num(-100)
    /\ call.args.entryTime = Num(1)
    /\ call.args.currentTime = Num(MaxFnTime)
    /\ result.fees.v > 0

\* C17: Snapper gives snapperTotal = deposit + deposit * timeHeld * 0.01 *
\* sqrt(1 + 0.3 timeHeld) with no early-entry bonus, so the deposit itself
\* whenever timeHeld = 0; deposit 1000 entered at 0 gives about 1079.06 at
\* t = 5.
SnapperFormula ==
    call.fn = "calculateSnapperReturns" =>
        LET d == call.args.initialDeposit
            fees == jsMul[jsMul[jsMul[d, callTimeHeld], Dec(1, 100)],
                          mathSqrt[jsAdd[Num(1), jsMul[Dec(3, 10), callTimeHeld]]]]
        IN  /\ result.snapperTotal = jsAdd[d, fees]
            /\ callTimeHeld = Num(0) => result.snapperTotal = d
            /\ d = Num(1000) /\ call.args.entryTime = Num(0) /\ call.args.currentTime = Num(5) =>
                absInt[result.snapperTotal.v - Dec(107906, 100).v] <= Dec(1, 100).v

\* C17 case: an early entry with no time held yet.
SnapperFormulaCase ==
    /\ call.fn = "calculateSnapperReturns"
    /\ call.args.initialDeposit = Num(1000)
    /\ call.args.entryTime = Num(1)
    /\ call.args.currentTime = Num(1)

RipperAsDisplayed ==
    call.fn = "calculateRipperReturns" =>
        LET displayed == ripperDisplayedModel(call.args.initialDeposit, call.args.entryTime,
                                              call.args.currentTime, call.args.isTopStaker)
        IN  /\ result.ripperTotal = displayed.ripperTotal
            /\ result.ripperAMM = displayed.ripperAMM
            /\ result.ripperStaking = displayed.ripperStaking

\* C20: the bonding-curve value at a point depends on t and the deposit
\* only: a series generated for the first deposit again, with whatever
\* entry time and staker flag, has the first series' pumpFunTotal at every t.
BondingCurveIgnoresEntry ==
    settledInteger /\ deposit = Num(1000) =>
        /\ Len(simulationData) = Len(firstSeries)
        /\ \A i \in 1..Len(simulationData) :
            simulationData[i].pumpFunTotal = firstSeries[i].pumpFunTotal

\* C20 case: the series regenerated for a later entry time by a holder who
\* is not a top staker.
BondingCurveIgnoresEntryCase ==
    /\ settledInteger
    /\ deposit = Num(1000)
    /\ entryTime = Num(3)
    /\ ~isTopStaker
    /\ simulationData # firstSeries


\* Every parameter but the bonding-curve selector has its initial value.
onlyCurveTypeChanged ==
    /\ mounted = "half"
    /\ timeframe = 10
    /\ initialDeposit = Num(1000)
    /\ investmentParams = InitInvestmentParams
    /\ rewardParams = InitRewardParams
    /\ bondingParams = [InitBondingParams EXCEPT !.curveType = "quadratic"]

\* C21: the bonding-curve selector switches the Pump.fun series between its
\* two variants: with curveType changed and nothing else, the series held
\* has another price than the first series at some point.
CurveTypeSelectsVariant ==
    onlyCurveTypeChanged =>
        \E i \in 1..Len(generateSimulationData) :
            generateSimulationData[i].pumpFunPrice # firstSeries[i].pumpFunPrice

\* C22: in every parameter state the entry-time control leads to, entryTime
\* is at least 0 and at most the simulated horizon.
EntryWithinHorizon ==
    mounted = "integer" => jsLeq[Num(0), entryTime] /\ jsLeq[entryTime, Num(TimeHorizon)]

\* C22 case: the slider at its maximum, the series regenerated.
EntryWithinHorizonCase == settledInteger /\ entryTime = Num(EntrySliderMax) /\ effectRuns = 2

\* C23: the lp, staking and protocol fee shares sum to 1 at start-up and
\* after any sequence of edits to the shares.
FeeSharesSumToOne ==
    mounted = "half" =>
        LET shares == investmentParams.feeDistribution
        IN  jsAdd[jsAdd[shares.lp, shares.staking], shares.protocol] = Num(1)


\* C24: for a top staker the staking multiplier stays between 1 and 3, so
\* the effective APY reported lies between 35 and 105 at every point and
\* never decreases as t grows.
EffectiveAPYBounded ==
    /\ call.fn = "calculateM3M3ReturnsCompound" /\ call.args.isTopStaker =>
        jsLeq[Num(35), result.apy] /\ jsLeq[result.apy, Num(105)]
    /\ call.fn = "seriesMemo" /\ call.args.isTopStaker =>
        /\ \A i \in 1..Len(result) :
            jsLeq[Num(35), result[i].m3m3APY] /\ jsLeq[result[i].m3m3APY, Num(105)]
        /\ \A i \in 1..(Len(result) - 1) : jsLeq[result[i].m3m3APY, result[i + 1].m3m3APY]

\* C24 case: a series long enough for the multiplier to reach its cap.
EffectiveAPYBoundedCase ==
    /\ call.fn = "seriesMemo"
    /\ call.args.isTopStaker
    /\ call.args.timeframe = TimeframeSliderMax
    /\ result[1].m3m3APY = Num(35)
    /\ result[Len(result)].m3m3APY = Num(105)

\* C25: in every rendered state, the first render and the render right
\* after a control changes included, the series handed to the charts and
\* cards is the one computed from the parameter values of that render.
RenderedSeriesCurrent ==
    /\ mounted = "integer" => simulationData = seriesEffect(deposit, entryTime, isTopStaker)
    /\ mounted = "half" =>
        generateSimulationData =
            seriesMemo(timeframe, initialDeposit, isTopStakerHalf, investmentParams,
                       bondingParams, rewardParams)

\* The time one half step before the time of the function applied.
halfStepBefore == jsSub[call.args.time, Dec(5, 10)]

\* C26: the market-cap multiplier is 1 at t = 0, its regimes agree at
\* t = 5 and t = 10 (the value there is the value the regime before gives,
\* and not below the value just before), and it never decreases in t >= 0.
MCMultiplierGrows ==
    call.fn = "calculateMCMultiplier" =>
        LET t == call.args.time
            value == result.marketCapMultiplier
        IN  /\ t = Num(0) => value = Num(1)
            /\ t = Num(5) => value = mathPow[Dec(13, 10), Num(5)]
            /\ t = Num(10) =>
                value = jsMul[mathPow[Dec(13, 10), Num(5)], mathPow[Dec(115, 100), Num(5)]]
            /\ jsLeq[Num(0), halfStepBefore] =>
                jsLeq[calculateMCMultiplier(halfStepBefore), value]

\* C26 case: the multiplier at the second boundary.
MCMultiplierGrowsCase ==
    /\ call.fn = "calculateMCMultiplier"
    /\ call.args.time = Num(10)
    /\ jsLess[Num(7), result.marketCapMultiplier]


\* The fields of a record of the integer-step series.
ProtocolDataFields ==
    {"time", "gobblerTotal", "snapperTotal", "ripperTotal", "ripperAMM", "ripperStaking",
     "m3m3Total", "m3m3Sol", "m3m3Token", "pumpFunTotal"}

\* C27: in the combined record for each t, time is t and every model's
\* fields hold the values that model's own function returns for t; no zero
\* placeholder of another function's record is left in it.
OwnFunctionFields ==
    call.fn = "seriesEffect" =>
        LET d == call.args.deposit
            e == call.args.entryTime
            b == call.args.isTopStaker
        IN  \A i \in 1..Len(result) :
                LET t == Num(i - 1)
                    rec == result[i]
                    ripper == calculateRipperReturns(d, e, t, b)
                    m3m3 == calculateM3M3Returns(d, e, t, b)
                IN  /\ DOMAIN rec = ProtocolDataFields
                    /\ rec.time = t
                    /\ rec.gobblerTotal = calculateGobblerReturns(d, e, t).gobblerTotal
                    /\ rec.snapperTotal = calculateSnapperReturns(d, e, t).snapperTotal
                    /\ rec.ripperTotal = ripper.ripperTotal
                    /\ rec.ripperAMM = ripper.ripperAMM
                    /\ rec.ripperStaking = ripper.ripperStaking
                    /\ rec.m3m3Total = m3m3.m3m3Total
                    /\ rec.m3m3Sol = m3m3.m3m3Sol
                    /\ rec.m3m3Token = m3m3.m3m3Token
                    /\ rec.pumpFunTotal = pumpFunValue(d, i - 1)

\* C27 case: a series whose last record has every field above zero.
OwnFunctionFieldsCase ==
    /\ call.fn = "seriesEffect"
    /\ call.args.deposit = Num(1000) /\ call.args.entryTime = Num(1) /\ call.args.isTopStaker
    /\ \A f \in ProtocolDataFields : result[Len(result)][f].v > 0

\* The fields that depend on staking.
StakingFields ==
    {"m3m3Total", "m3m3Sol", "m3m3Token", "m3m3APY", "ripperStaking", "ripperTotal"}

\* The series of the same parameters with the top-staker flag toggled.
toggledSeries ==
    IF call.fn = "seriesEffect"
    THEN seriesEffect(call.args.deposit, call.args.entryTime, ~call.args.isTopStaker)
    ELSE seriesMemo(call.args.timeframe, call.args.initialDeposit, ~call.args.isTopStaker,
                    call.args.investmentParams, call.args.bondingParams,
                    call.args.rewardParams)

\* C28: toggling isTopStaker changes only the staking-dependent fields;
\* every other field of every record is identical in the two runs.
TopStakerTouchesStakingOnly ==
    call.fn \in {"seriesEffect", "seriesMemo"} =>
        \A other \in {toggledSeries} :
            /\ Len(other) = Len(result)
            /\ \A i \in 1..Len(result) :
                \A f \in (DOMAIN result[i]) \ StakingFields : other[i][f] = result[i][f]

\* C28 case: two runs that differ in the staking fields and have AMM fees.
TopStakerTouchesStakingOnlyCase ==
    /\ call.fn = "seriesEffect"
    /\ call.args.deposit = Num(1000) /\ call.args.entryTime = Num(1) /\ ~call.args.isTopStaker
    /\ result[Len(result)].ripperAMM.v > 0
    /\ toggledSeries[Len(result)].ripperTotal # result[Len(result)].ripperTotal
    /\ toggledSeries[Len(result)].m3m3Total # result[Len(result)].m3m3Total

\* The half-step series of the six values it depends on, every other
\* parameter at its initial value.
seriesOfSix(tf, dep, topStaker, solTokenRatio, compoundPeriod, lpTokenRatio) ==
    seriesMemo(tf, dep, topStaker, InitInvestmentParams,
               [InitBondingParams EXCEPT !.lpTokenRatio = lpTokenRatio],
               [InitRewardParams EXCEPT !.solTokenRatio = solTokenRatio,
                                        !.compoundPeriod = compoundPeriod])

ModelTotals == {"gobblerTotal", "snapperTotal", "m3m3Total", "ripperTotal"}

\* C30: for a deposit of zero or more and fixed parameters, gobblerTotal,
\* snapperTotal, m3m3Total and ripperTotal never decrease from one point of
\* the integer-step series to the next.
TotalsNeverDecrease ==
    call.fn = "seriesEffect" /\ call.args.deposit.v >= 0 =>
        \A i \in 1..(Len(result) - 1) :
            \A f \in ModelTotals : jsLeq[result[i][f], result[i + 1][f]]

\* C30 case: a series whose four totals all grow between entry and the end.
TotalsNeverDecreaseCase ==
    /\ call.fn = "seriesEffect"
    /\ call.args.deposit = Num(1000) /\ call.args.entryTime = Num(4) /\ call.args.isTopStaker
    /\ \A f \in ModelTotals : jsLess[result[1][f], result[Len(result)][f]]

====
